---- MODULE Spec2Model ----
(***************************************************************************)
(* Model of src/src/main.c: the SHT4xI analog sensor conversion routines.  *)
(* One run of main() is a state machine whose steps are the blocks of      *)
(* main(): getCommandLineArguments, buffer allocation, the computation     *)
(* loop, aggregation, reporting, CSV output, save-and-free.                *)
(*                                                                         *)
(* A double is modelled as an exact rational <<numerator, denominator>>    *)
(* in lowest terms with a positive denominator.  <<0, 0>> is NaN,          *)
(* <<1, 0>> and <<-1, 0>> are the infinities and <<0, -1>> marks storage   *)
(* that was never written.                                                 *)
(***************************************************************************)
EXTENDS Integers, Sequences, FiniteSets, TLC

(* ---------------- bounds of the model ---------------- *)

\* Largest iteration count the command line may ask for (-M).
MaxIter == 2
\* Each uniform input range is sampled at SampleSteps + 1 equidistant points.
SampleSteps == 1
\* How far above the 'all' sentinel a parsed selector may lie.
SelectExcess == 1

(* ---------------- program constants ---------------- *)

kInputDistributionIndexVrh == 0
kInputDistributionIndexVt == 1
kInputDistributionIndexVsupply == 2
kInputDistributionIndexMax == 3

kOutputDistributionIndexCalibratedRelativeHumidity == 0
kOutputDistributionIndexCalibratedTemperatureCelcius == 1
kOutputDistributionIndexCalibratedTemperatureFahrenheit == 2
kOutputDistributionIndexMax == 3

kCommonConstantReturnTypeSuccess == 0
kCommonConstantReturnTypeError == 1

kSensorCalibrationConstant1 == <<-25, 2>>
kSensorCalibrationConstant2 == <<125, 1>>
kSensorCalibrationConstant3 == <<-535, 8>>
kSensorCalibrationConstant4 == <<875, 4>>
kSensorCalibrationConstant5 == <<-707, 8>>
kSensorCalibrationConstant6 == <<1575, 4>>

kDefaultInputDistributionVtUniformDistLow == <<23, 10>>
kDefaultInputDistributionVtUniformDistHigh == <<27, 10>>
kDefaultInputDistributionVrhUniformDistLow == <<23, 10>>
kDefaultInputDistributionVrhUniformDistHigh == <<27, 10>>
kDefaultInputDistributionVsupplyUniformDistLow == <<24, 5>>
kDefaultInputDistributionVsupplyUniformDistHigh == <<27, 5>>

(* ---------------- double arithmetic (exact rationals) ---------------- *)

NaN == <<0, 0>>
Uninit == <<0, -1>>
Zero == <<0, 1>>

Abs(x) == IF x < 0 THEN -x ELSE x

RECURSIVE GCD(_, _)
GCD(a, b) == IF b = 0 THEN a ELSE GCD(b, a % b)

\* n/d in lowest terms with a positive denominator; 0/0 is NaN, x/0 is
\* an infinity.
Rat(n, d) ==
    IF d = 0 THEN (IF n = 0 THEN NaN ELSE IF n > 0 THEN <<1, 0>> ELSE <<-1, 0>>)
    ELSE LET g == GCD(Abs(n), Abs(d))
             s == IF d < 0 THEN -1 ELSE 1
         IN  <<(s * n) \div g, (s * d) \div g>>

IsFinite(x) == x[2] > 0

\* Sums are formed over the least common denominator.
RatAdd(x, y) ==
    IF IsFinite(x) /\ IsFinite(y)
    THEN LET l == (x[2] \div GCD(x[2], y[2])) * y[2]
         IN  Rat(x[1] * (l \div x[2]) + y[1] * (l \div y[2]), l)
    ELSE NaN

RatSub(x, y) ==
    IF IsFinite(x) /\ IsFinite(y)
    THEN RatAdd(x, <<-y[1], y[2]>>)
    ELSE NaN

RatMul(x, y) ==
    IF IsFinite(x) /\ IsFinite(y)
    THEN Rat(x[1] * y[1], x[2] * y[2])
    ELSE NaN

RatDiv(x, y) ==
    IF IsFinite(x) /\ IsFinite(y)
    THEN Rat(x[1] * y[2], x[2] * y[1])
    ELSE NaN

(* ---------------- the program state ---------------- *)

VARIABLES
    pc,                       \* position of main()
    arguments,                \* CommandLineArguments.common
    isParsed,                 \* parseArgs() returned 0
    parsedOutputSelect,       \* outputSelect as parseArgs() left it
    stdout,                   \* what was printed to the standard output
    stderr,                   \* what was printed to the diagnostic stream
    exitStatus,               \* status the process ended with
    exitAt,                   \* statement that ended the process
    i,                        \* loop counter of main()
    inputDistributions,       \* double inputDistributions[3]
    outputDistributions,      \* double outputDistributions[3]
    calibratedSensorOutput,   \* double calibratedSensorOutput
    meanAndVariance,          \* MeanAndVariance meanAndVariance
    cpuTimeUsedSeconds,       \* "uninit" or "set"
    monteCarloOutputSamples,  \* contents of the sample buffer
    bufferState,              \* "null", "allocated" or "freed"
    bufferLog,                \* allocation, readers and release, in order
    writeCount,               \* number of stores into each buffer slot
    outOfBoundsWrites,        \* indices stored to outside the buffer
    returned,                 \* return value of calculateSensorOutput per iteration
    slotsWritten,             \* outputDistributions slots written so far
    slotsRead,                \* <<reporter, slot>> read from outputDistributions
    indicesUsed               \* <<array, index>> used by main and the reporters

vars == <<pc, arguments, isParsed, parsedOutputSelect, stdout, stderr,
          exitStatus, exitAt, i, inputDistributions, outputDistributions,
          calibratedSensorOutput, meanAndVariance, cpuTimeUsedSeconds,
          monteCarloOutputSamples, bufferState, bufferLog, writeCount,
          outOfBoundsWrites, returned, slotsWritten, slotsRead, indicesUsed>>

\* The variables the steps after getCommandLineArguments leave alone.
argVars == <<arguments, isParsed, parsedOutputSelect, stderr>>

(* ---------------- command line ---------------- *)

\* CommandLineArguments arguments = {0}
DefaultArguments ==
    [isHelpEnabled |-> FALSE, isInputFromFileEnabled |-> FALSE,
     isWriteToFileEnabled |-> FALSE, isMonteCarloMode |-> FALSE,
     isBenchmarkingMode |-> FALSE, isTimingEnabled |-> FALSE,
     isOutputJSONMode |-> FALSE, isOutputSelected |-> FALSE,
     outputSelect |-> 0, numberOfMonteCarloIterations |-> 0]

\* The values parseArgs() can deliver.  Without -M the iteration count is 1
\* (main.c:534: "In this case, numberOfMonteCarloIterations equals 1").
ParsedArguments ==
    { p \in [isHelpEnabled : BOOLEAN, isInputFromFileEnabled : BOOLEAN,
             isWriteToFileEnabled : BOOLEAN, isMonteCarloMode : BOOLEAN,
             isBenchmarkingMode : BOOLEAN, isTimingEnabled : BOOLEAN,
             isOutputJSONMode : BOOLEAN, isOutputSelected : BOOLEAN,
             outputSelect : 0..(kOutputDistributionIndexMax + SelectExcess),
             numberOfMonteCarloIterations : 0..MaxIter] :
        p.isMonteCarloMode \/ p.numberOfMonteCarloIterations = 1 }

\* InputFromFileRejected without the check.
InputFromFileAccepted(p) == FALSE

\* main.c:388: file input is not supported.
InputFromFileRejected(p) == p.isInputFromFileEnabled

\* WriteToFileConflict testing the benchmarking flag instead.
WriteToFileConflictWithBenchmarking(p) == p.isWriteToFileEnabled /\ p.isBenchmarkingMode

\* WriteToFileConflict without the check.
WriteToFileConflictNever(p) == FALSE

\* main.c:398: file output is not supported in Monte Carlo mode.
WriteToFileConflict(p) == p.isWriteToFileEnabled /\ p.isMonteCarloMode

\* DefaultOutputSelect keeping what the parser left.
DefaultOutputSelectKept(p) == p

\* main.c:408-411: without -S the selector becomes the 'all' sentinel.
DefaultOutputSelect(p) ==
    IF ~p.isOutputSelected
    THEN [p EXCEPT !.outputSelect = kOutputDistributionIndexMax]
    ELSE p

\* SelectAllConflict testing the benchmarking flag only.
SelectAllConflictBenchmarkingOnly(a) ==
    /\ a.outputSelect = kOutputDistributionIndexMax
    /\ a.isBenchmarkingMode

\* main.c:427-429: 'all' cannot be combined with benchmarking or Monte Carlo.
SelectAllConflict(a) ==
    /\ a.outputSelect = kOutputDistributionIndexMax
    /\ (a.isBenchmarkingMode \/ a.isMonteCarloMode)

\* ProcessArguments with the help check after the compatibility checks.
ProcessArgumentsHelpLast(p) ==
    IF InputFromFileRejected(p)
    THEN [ret |-> "error", args |-> p, diag |-> <<"input_from_file_unsupported">>]
    ELSE IF WriteToFileConflict(p)
    THEN [ret |-> "error", args |-> p, diag |-> <<"write_to_file_in_monte_carlo">>]
    ELSE LET a == DefaultOutputSelect(p)
         IN  IF a.outputSelect > kOutputDistributionIndexMax
             THEN [ret |-> "success", args |-> a,
                   diag |-> <<"output_select_out_of_range">>]
             ELSE IF SelectAllConflict(a)
             THEN [ret |-> "error", args |-> a,
                   diag |-> <<"select_single_output">>]
             ELSE IF a.isHelpEnabled
             THEN [ret |-> "exit", args |-> a, diag |-> <<"usage">>]
             ELSE [ret |-> "success", args |-> a, diag |-> <<>>]

\* getCommandLineArguments() after a successful parseArgs(): the outcome
\* ("exit" for exit(EXIT_SUCCESS), "error", "success"), the arguments as
\* they are left, and the diagnostics printed.  The branch for a selector
\* above the sentinel prints its diagnostic and falls through to the
\* success return.
ProcessArguments(p) ==
    IF p.isHelpEnabled
    THEN [ret |-> "exit", args |-> p, diag |-> <<"usage">>]
    ELSE IF InputFromFileRejected(p)
    THEN [ret |-> "error", args |-> p, diag |-> <<"input_from_file_unsupported">>]
    ELSE IF WriteToFileConflict(p)
    THEN [ret |-> "error", args |-> p, diag |-> <<"write_to_file_in_monte_carlo">>]
    ELSE LET a == DefaultOutputSelect(p)
         IN  IF a.outputSelect > kOutputDistributionIndexMax
             THEN [ret |-> "success", args |-> a,
                   diag |-> <<"output_select_out_of_range">>]
             ELSE IF SelectAllConflict(a)
             THEN [ret |-> "error", args |-> a,
                   diag |-> <<"select_single_output">>]
             ELSE [ret |-> "success", args |-> a, diag |-> <<>>]

(* ---------------- calibration ---------------- *)

\* Equidistant points of the uniform range [lo, hi].
UniformSamples(lo, hi) ==
    { RatAdd(lo, RatMul(Rat(k, SampleSteps), RatSub(hi, lo))) : k \in 0..SampleSteps }

\* setInputDistributionsViaUxHwCall(): one draw of the three voltages.
InputSamples ==
    { [k \in 0..(kInputDistributionIndexMax - 1) |->
          IF k = kInputDistributionIndexVrh THEN vrh
          ELSE IF k = kInputDistributionIndexVt THEN vt ELSE vs] :
        vrh \in UniformSamples(kDefaultInputDistributionVrhUniformDistLow,
                               kDefaultInputDistributionVrhUniformDistHigh),
        vt \in UniformSamples(kDefaultInputDistributionVtUniformDistLow,
                              kDefaultInputDistributionVtUniformDistHigh),
        vs \in UniformSamples(kDefaultInputDistributionVsupplyUniformDistLow,
                              kDefaultInputDistributionVsupplyUniformDistHigh) }

\* RhOf with the humidity voltage taken from the temperature input.
RhOfFromVt(in) ==
    RatAdd(kSensorCalibrationConstant1,
           RatMul(kSensorCalibrationConstant2,
                  RatDiv(in[kInputDistributionIndexVt], in[kInputDistributionIndexVsupply])))

\* The three formulas of calculateSensorOutput().
RhOf(in) ==
    RatAdd(kSensorCalibrationConstant1,
           RatMul(kSensorCalibrationConstant2,
                  RatDiv(in[kInputDistributionIndexVrh], in[kInputDistributionIndexVsupply])))

TcelciusOf(in) ==
    RatAdd(kSensorCalibrationConstant3,
           RatMul(kSensorCalibrationConstant4,
                  RatDiv(in[kInputDistributionIndexVt], in[kInputDistributionIndexVsupply])))

TfahrenheitOf(in) ==
    RatAdd(kSensorCalibrationConstant5,
           RatMul(kSensorCalibrationConstant6,
                  RatDiv(in[kInputDistributionIndexVt], in[kInputDistributionIndexVsupply])))

\* SlotsSelected with the lower slots written along with the selected one.
SlotsSelectedAndBelow(outputSelect) ==
    { s \in 0..(kOutputDistributionIndexMax - 1) :
        outputSelect = kOutputDistributionIndexMax \/ s <= outputSelect }

\* The slots calculateSensorOutput() writes for a selector.
SlotsSelected(outputSelect) ==
    { s \in 0..(kOutputDistributionIndexMax - 1) :
        outputSelect = kOutputDistributionIndexMax \/ outputSelect = s }

\* calculateSensorOutput(): the output array after the call, the value
\* returned and the slots stored to.
calculateSensorOutput(args, in, out) ==
    LET sel  == SlotsSelected(args.outputSelect)
        out1 == IF kOutputDistributionIndexCalibratedRelativeHumidity \in sel
                THEN [out EXCEPT ![kOutputDistributionIndexCalibratedRelativeHumidity] = RhOf(in)]
                ELSE out
        ret1 == IF kOutputDistributionIndexCalibratedRelativeHumidity \in sel
                THEN RhOf(in) ELSE Zero
        out2 == IF kOutputDistributionIndexCalibratedTemperatureCelcius \in sel
                THEN [out1 EXCEPT ![kOutputDistributionIndexCalibratedTemperatureCelcius] = TcelciusOf(in)]
                ELSE out1
        ret2 == IF kOutputDistributionIndexCalibratedTemperatureCelcius \in sel
                THEN TcelciusOf(in) ELSE ret1
        out3 == IF kOutputDistributionIndexCalibratedTemperatureFahrenheit \in sel
                THEN [out2 EXCEPT ![kOutputDistributionIndexCalibratedTemperatureFahrenheit] = TfahrenheitOf(in)]
                ELSE out2
        ret3 == IF kOutputDistributionIndexCalibratedTemperatureFahrenheit \in sel
                THEN TfahrenheitOf(in) ELSE ret2
    IN  [out |-> out3, ret |-> ret3, written |-> sel]

(* ---------------- aggregation ---------------- *)

RECURSIVE SumOfSamples(_, _)
SumOfSamples(samples, n) ==
    IF n = 0 THEN Zero ELSE RatAdd(SumOfSamples(samples, n - 1), samples[n - 1])

\* calculateMeanAndVarianceOfDoubleSamples(): the arithmetic average, the
\* sum divided by the number of samples.  main() reads the mean only, so
\* the variance is not carried.
calculateMeanAndVarianceOfDoubleSamples(samples, n) ==
    [mean |-> RatDiv(SumOfSamples(samples, n), Rat(n, 1))]

(* ---------------- main() ---------------- *)

Init ==
    /\ pc = "start"
    /\ arguments = DefaultArguments
    /\ isParsed = FALSE
    /\ parsedOutputSelect = 0
    /\ stdout = <<>>
    /\ stderr = <<>>
    /\ exitStatus = 0
    /\ exitAt = "none"
    /\ i = 0
    /\ inputDistributions = [k \in 0..(kInputDistributionIndexMax - 1) |-> Uninit]
    /\ outputDistributions = [k \in 0..(kOutputDistributionIndexMax - 1) |-> Uninit]
    /\ calibratedSensorOutput = Uninit
    /\ meanAndVariance = [mean |-> Uninit]
    /\ cpuTimeUsedSeconds = "uninit"
    /\ monteCarloOutputSamples = [k \in 0..(-1) |-> Uninit]
    /\ bufferState = "null"
    /\ bufferLog = <<>>
    /\ writeCount = [k \in 0..(-1) |-> 0]
    /\ outOfBoundsWrites = {}
    /\ returned = <<>>
    /\ slotsWritten = {}
    /\ slotsRead = {}
    /\ indicesUsed = {}

\* main.c:134-137 with getCommandLineArguments(), main.c:350-438.
GetCommandLineArguments ==
    /\ pc = "start"
    /\ \/ \* parseArgs() fails: diagnostic, usage, error return.
          /\ isParsed' = FALSE
          /\ arguments' = arguments
          /\ parsedOutputSelect' = parsedOutputSelect
          /\ stderr' = stderr \o <<"parsing_failed", "usage">>
          /\ pc' = "done"
          /\ exitStatus' = kCommonConstantReturnTypeError
          /\ exitAt' = "main:136"
       \/ \E p \in ParsedArguments :
            LET r == ProcessArguments(p)
            IN  /\ isParsed' = TRUE
                /\ parsedOutputSelect' = p.outputSelect
                /\ arguments' = r.args
                /\ stderr' = stderr \o r.diag
                /\ pc' = IF r.ret = "success" THEN "alloc" ELSE "done"
                /\ exitStatus' = IF r.ret = "error"
                                 THEN kCommonConstantReturnTypeError ELSE 0
                /\ exitAt' = IF r.ret = "error" THEN "main:136"
                             ELSE IF r.ret = "exit"
                             THEN "getCommandLineArguments:385" ELSE "none"
    /\ UNCHANGED <<stdout, i, inputDistributions, outputDistributions,
                   calibratedSensorOutput, meanAndVariance, cpuTimeUsedSeconds,
                   monteCarloOutputSamples, bufferState, bufferLog, writeCount,
                   outOfBoundsWrites, returned, slotsWritten, slotsRead,
                   indicesUsed>>

\* main.c:150-153 and 190-194: the clock is read only when timing is asked for.
TimingRequested(args) == args.isTimingEnabled \/ args.isBenchmarkingMode

\* main.c:139-153: the sample buffer is allocated in Monte Carlo mode only;
\* checkedMalloc() ends the process when the allocation fails.
AllocateSampleBuffer ==
    /\ pc = "alloc"
    /\ \/ /\ arguments.isMonteCarloMode
          /\ monteCarloOutputSamples' =
                 [k \in 0..(arguments.numberOfMonteCarloIterations - 1) |-> Uninit]
          /\ writeCount' =
                 [k \in 0..(arguments.numberOfMonteCarloIterations - 1) |-> 0]
          /\ bufferState' = "allocated"
          /\ bufferLog' = Append(bufferLog, "alloc")
          /\ pc' = "loop"
          /\ UNCHANGED <<stderr, exitStatus, exitAt>>
       \/ /\ arguments.isMonteCarloMode
          /\ stderr' = Append(stderr, "allocation_failed")
          /\ pc' = "done"
          /\ exitStatus' = 1
          /\ exitAt' = "checkedMalloc"
          /\ UNCHANGED <<monteCarloOutputSamples, writeCount, bufferState, bufferLog>>
       \/ /\ ~arguments.isMonteCarloMode
          /\ pc' = "loop"
          /\ UNCHANGED <<monteCarloOutputSamples, writeCount, bufferState,
                         bufferLog, stderr, exitStatus, exitAt>>
    /\ UNCHANGED <<arguments, isParsed, parsedOutputSelect, stdout, i,
                   inputDistributions, outputDistributions,
                   calibratedSensorOutput, meanAndVariance, cpuTimeUsedSeconds,
                   outOfBoundsWrites, returned, slotsWritten, slotsRead,
                   indicesUsed>>

\* LoopContinues running one iteration too many.
LoopContinuesInclusive(index, n) == index <= n

\* main.c:155: the loop condition.
LoopContinues(index, n) == index < n

\* main.c:155-173: one iteration of the computation loop.
LoopIteration ==
    /\ pc = "loop"
    /\ LoopContinues(i, arguments.numberOfMonteCarloIterations)
    /\ \E in \in InputSamples :
         LET r == calculateSensorOutput(arguments, in, outputDistributions)
         IN  /\ inputDistributions' = in
             /\ outputDistributions' = r.out
             /\ calibratedSensorOutput' = r.ret
             /\ returned' = Append(returned, r.ret)
             /\ slotsWritten' = slotsWritten \cup r.written
             /\ IF arguments.isMonteCarloMode
                THEN IF i \in DOMAIN monteCarloOutputSamples
                     THEN /\ monteCarloOutputSamples' =
                                 [monteCarloOutputSamples EXCEPT ![i] = r.ret]
                          /\ writeCount' = [writeCount EXCEPT ![i] = @ + 1]
                          /\ UNCHANGED outOfBoundsWrites
                     ELSE /\ outOfBoundsWrites' = outOfBoundsWrites \cup {i}
                          /\ UNCHANGED <<monteCarloOutputSamples, writeCount>>
                ELSE UNCHANGED <<monteCarloOutputSamples, writeCount, outOfBoundsWrites>>
    /\ i' = i + 1
    /\ UNCHANGED <<pc, argVars, stdout, exitStatus, exitAt, meanAndVariance,
                   cpuTimeUsedSeconds, bufferState, bufferLog, slotsRead,
                   indicesUsed>>

\* main.c:155 (loop exit) and 179-194: mean and variance of the samples in
\* Monte Carlo mode, then the end of the timing.
Aggregate ==
    /\ pc = "loop"
    /\ ~LoopContinues(i, arguments.numberOfMonteCarloIterations)
    /\ IF arguments.isMonteCarloMode
       THEN LET mv == calculateMeanAndVarianceOfDoubleSamples(
                          monteCarloOutputSamples,
                          arguments.numberOfMonteCarloIterations)
            IN  /\ meanAndVariance' = mv
                /\ calibratedSensorOutput' = mv.mean
                /\ bufferLog' = Append(bufferLog, "read:aggregate")
       ELSE UNCHANGED <<meanAndVariance, calibratedSensorOutput, bufferLog>>
    /\ cpuTimeUsedSeconds' = IF TimingRequested(arguments) THEN "set"
                             ELSE cpuTimeUsedSeconds
    /\ pc' = "print"
    /\ UNCHANGED <<argVars, stdout, exitStatus, exitAt, i, inputDistributions,
                   outputDistributions, monteCarloOutputSamples, bufferState,
                   writeCount, outOfBoundsWrites, returned, slotsWritten,
                   slotsRead, indicesUsed>>

\* All slots of an array of kOutputDistributionIndexMax entries.
AllSlots == 0..(kOutputDistributionIndexMax - 1)

\* main.c:212-228: the entries the text report prints.
TextReportSlots(args) ==
    IF args.outputSelect = kOutputDistributionIndexMax
    THEN AllSlots ELSE {args.outputSelect}

\* printJSONFormattedOutput(), main.c:517-528: the range of the loop.
JSONReportSlots(args) ==
    LET outputSelectLowerBound ==
            IF args.outputSelect = kOutputDistributionIndexMax
            THEN 0 ELSE args.outputSelect
        outputSelectUpperBound ==
            IF args.outputSelect = kOutputDistributionIndexMax
            THEN kOutputDistributionIndexMax ELSE outputSelectLowerBound + 1
    IN  outputSelectLowerBound..(outputSelectUpperBound - 1)

\* NextAfterPrint with the CSV writer after the benchmarking branch too.
NextAfterPrintAlwaysWrite(args) == "write"

\* main.c:196-261: only the branch that is not the benchmarking branch goes
\* on to the CSV writer.
NextAfterPrint(args) == IF args.isBenchmarkingMode THEN "save" ELSE "write"

\* n entries s.
Repeat(s, n) == [k \in 1..n |-> s]

\* main.c:196-245: the benchmark line, or the text report or JSON record
\* followed by the timing line.  An index beyond the arrays is undefined
\* behaviour: the run either goes on with whatever it read or crashes.
PrintResults ==
    /\ pc = "print"
    /\ IF arguments.isBenchmarkingMode
       THEN /\ stdout' = Append(stdout, "benchmark_line")
            /\ pc' = NextAfterPrint(arguments)
            /\ UNCHANGED <<slotsRead, indicesUsed, bufferLog>>
       ELSE LET slots == IF arguments.isOutputJSONMode
                         THEN JSONReportSlots(arguments)
                         ELSE TextReportSlots(arguments)
                timing == IF arguments.isTimingEnabled
                          THEN <<"timing_line">> ELSE <<>>
            IN  /\ indicesUsed' = indicesUsed \cup
                       IF arguments.isOutputJSONMode
                       THEN { <<"jsonVariables", k>> : k \in slots } \cup
                            { <<"outputVariableNames", k>> : k \in slots } \cup
                            (IF arguments.isMonteCarloMode THEN {}
                             ELSE { <<"outputDistributions", k>> : k \in slots })
                       ELSE { <<"outputVariableNames", k>> : k \in slots } \cup
                            { <<"unitsOfMeasurement", k>> : k \in slots } \cup
                            (IF arguments.outputSelect = kOutputDistributionIndexMax
                             THEN { <<"outputDistributions", k>> : k \in slots }
                             ELSE {})
                /\ slotsRead' = slotsRead \cup
                       IF arguments.isOutputJSONMode
                       THEN (IF arguments.isMonteCarloMode THEN {}
                             ELSE { <<"json", k>> : k \in slots })
                       ELSE (IF arguments.outputSelect = kOutputDistributionIndexMax
                             THEN { <<"text", k>> : k \in slots } ELSE {})
                /\ bufferLog' = IF arguments.isOutputJSONMode /\ arguments.isMonteCarloMode
                                THEN Append(bufferLog, "read:json") ELSE bufferLog
                /\ \/ /\ stdout' = stdout \o
                             (IF arguments.isOutputJSONMode
                              THEN <<"json_record">>
                              ELSE Repeat("text_report", Cardinality(slots))) \o timing
                      /\ pc' = NextAfterPrint(arguments)
                   \/ /\ \E k \in slots : k \notin AllSlots
                      /\ stdout' = stdout
                      /\ pc' = "crashed"
    /\ UNCHANGED <<argVars, exitStatus, exitAt, i, inputDistributions,
                   outputDistributions, calibratedSensorOutput, meanAndVariance,
                   cpuTimeUsedSeconds, monteCarloOutputSamples, bufferState,
                   writeCount, outOfBoundsWrites, returned, slotsWritten>>

\* main.c:250-260: the CSV writer is handed all kOutputDistributionIndexMax
\* slots; its failure is main's second error return.
WriteOutputData ==
    /\ pc = "write"
    /\ IF arguments.isWriteToFileEnabled
       THEN /\ slotsRead' = slotsRead \cup { <<"csv", k>> : k \in AllSlots }
            /\ indicesUsed' = indicesUsed \cup
                   { <<"outputDistributions", k>> : k \in AllSlots } \cup
                   { <<"outputVariableNames", k>> : k \in AllSlots }
            /\ \/ /\ pc' = "save"
                  /\ UNCHANGED <<exitStatus, exitAt>>
               \/ /\ pc' = "done"
                  /\ exitStatus' = kCommonConstantReturnTypeError
                  /\ exitAt' = "main:258"
       ELSE /\ pc' = "save"
            /\ UNCHANGED <<slotsRead, indicesUsed, exitStatus, exitAt>>
    /\ UNCHANGED <<argVars, stdout, i, inputDistributions, outputDistributions,
                   calibratedSensorOutput, meanAndVariance, cpuTimeUsedSeconds,
                   monteCarloOutputSamples, bufferState, bufferLog, writeCount,
                   outOfBoundsWrites, returned, slotsWritten>>

\* main.c:267-274: the samples are saved and the buffer is released.
SaveAndFree ==
    /\ pc = "save"
    /\ IF arguments.isMonteCarloMode
       THEN /\ bufferLog' = bufferLog \o <<"read:save", "free">>
            /\ bufferState' = "freed"
       ELSE UNCHANGED <<bufferLog, bufferState>>
    /\ pc' = "done"
    /\ exitStatus' = 0
    /\ exitAt' = "main:274"
    /\ UNCHANGED <<argVars, stdout, i, inputDistributions, outputDistributions,
                   calibratedSensorOutput, meanAndVariance, cpuTimeUsedSeconds,
                   monteCarloOutputSamples, writeCount, outOfBoundsWrites,
                   returned, slotsWritten, slotsRead, indicesUsed>>

Next ==
    \/ GetCommandLineArguments
    \/ AllocateSampleBuffer
    \/ LoopIteration
    \/ Aggregate
    \/ PrintResults
    \/ WriteOutputData
    \/ SaveAndFree

Spec == Init /\ [][Next]_vars

(* ---------------- calculateSensorOutput() on its own ---------------- *)

\* Voltages on a grid of tenths of a volt around the ranges of the sampler;
\* the supply voltage is never zero.
SignalVoltages == { Rat(k, 10) : k \in 23..27 }
SupplyVoltages == { Rat(k, 10) : k \in 48..54 }

CalibrationInputs ==
    { [k \in 0..(kInputDistributionIndexMax - 1) |->
          IF k = kInputDistributionIndexVrh THEN vrh
          ELSE IF k = kInputDistributionIndexVt THEN vt ELSE vs] :
        vrh \in SignalVoltages, vt \in SignalVoltages, vs \in SupplyVoltages }

\* What the output array may hold before a call: a slot was either never
\* written or holds some earlier value.
EarlierOutputs == [0..(kOutputDistributionIndexMax - 1) -> {Uninit, Rat(7, 1)}]

\* The state before one call of calculateSensorOutput(): any selector the
\* function can be handed, any sample, any earlier content of the outputs.
InitCalibration ==
    /\ pc = "calibrate"
    /\ \E s \in 0..(kOutputDistributionIndexMax + SelectExcess) :
         arguments = [DefaultArguments EXCEPT !.outputSelect = s,
                                              !.isOutputSelected = TRUE,
                                              !.numberOfMonteCarloIterations = 1]
    /\ isParsed = TRUE
    /\ parsedOutputSelect = arguments.outputSelect
    /\ stdout = <<>>
    /\ stderr = <<>>
    /\ exitStatus = 0
    /\ exitAt = "none"
    /\ i = 0
    /\ inputDistributions \in CalibrationInputs
    /\ outputDistributions \in EarlierOutputs
    /\ calibratedSensorOutput = Uninit
    /\ meanAndVariance = [mean |-> Uninit]
    /\ cpuTimeUsedSeconds = "uninit"
    /\ monteCarloOutputSamples = [k \in 0..(-1) |-> Uninit]
    /\ bufferState = "null"
    /\ bufferLog = <<>>
    /\ writeCount = [k \in 0..(-1) |-> 0]
    /\ outOfBoundsWrites = {}
    /\ returned = <<>>
    /\ slotsWritten = {}
    /\ slotsRead = {}
    /\ indicesUsed = {}

\* main.c:164: one call of calculateSensorOutput().
Calibrate ==
    /\ pc = "calibrate"
    /\ LET r == calculateSensorOutput(arguments, inputDistributions, outputDistributions)
       IN  /\ outputDistributions' = r.out
           /\ calibratedSensorOutput' = r.ret
           /\ returned' = Append(returned, r.ret)
           /\ slotsWritten' = slotsWritten \cup r.written
    /\ pc' = "calibrated"
    /\ UNCHANGED <<argVars, stdout, exitStatus, exitAt, i, inputDistributions,
                   meanAndVariance, cpuTimeUsedSeconds, monteCarloOutputSamples,
                   bufferState, bufferLog, writeCount, outOfBoundsWrites,
                   slotsRead, indicesUsed>>

NextCalibration == Calibrate

SpecCalibration == InitCalibration /\ [][NextCalibration]_vars

(* ======================= properties ======================= *)

Vrh == inputDistributions[kInputDistributionIndexVrh]
Vt == inputDistributions[kInputDistributionIndexVt]
Vsupply == inputDistributions[kInputDistributionIndexVsupply]

\* out = c1 + c2 * (v / vs), stated without a division: out * vs = c1 * vs + c2 * v.
IsLinearValue(out, c1, c2, v, vs) ==
    /\ IsFinite(out)
    /\ RatMul(out, vs) = RatAdd(RatMul(c1, vs), RatMul(c2, v))

\* x agrees with the decimal numeral n / scale to half a unit of its last digit.
IsAbout(x, n, scale) ==
    /\ IsFinite(x)
    /\ 2 * Abs(x[1] * scale - n * x[2]) <= x[2]

\* calculateSensorOutput() has run for a sample with Vsupply # 0.
Calibrated == (pc = "calibrated" \/ i > 0) /\ Vsupply[1] # 0

\* The output slots a selector asks for: all of them for the 'all'
\* sentinel, the slot itself for a single selector.
RequestedSlots ==
    IF arguments.outputSelect = 3 THEN {0, 1, 2} ELSE {arguments.outputSelect} \cap {0, 1, 2}

\* Every requested slot holds the value of its linear formula.
SlotsHoldLinearFormula ==
    Calibrated =>
        \A s \in RequestedSlots :
            IF s = kOutputDistributionIndexCalibratedRelativeHumidity
            THEN IsLinearValue(outputDistributions[s], Rat(-125, 10), Rat(125, 1), Vrh, Vsupply)
            ELSE IF s = kOutputDistributionIndexCalibratedTemperatureCelcius
            THEN IsLinearValue(outputDistributions[s], Rat(-66875, 1000), Rat(21875, 100), Vt, Vsupply)
            ELSE IsLinearValue(outputDistributions[s], Rat(-88375, 1000), Rat(39375, 100), Vt, Vsupply)

\* The sample Vrh = Vt = 2.5, Vsupply = 5.1 was calibrated with all outputs.
ExampleSample ==
    /\ Calibrated
    /\ arguments.outputSelect = kOutputDistributionIndexMax
    /\ Vrh = Rat(25, 10) /\ Vt = Rat(25, 10) /\ Vsupply = Rat(51, 10)

\* C1 as stated: every requested slot holds the linear formula value, and
\* the sample Vrh = Vt = 2.5, Vsupply = 5.1 gives about 48.776, 40.37 and
\* 104.67.
C1_AsStated ==
    /\ SlotsHoldLinearFormula
    /\ ExampleSample =>
         /\ IsAbout(outputDistributions[0], 48776, 1000)
         /\ IsAbout(outputDistributions[1], 4037, 100)
         /\ IsAbout(outputDistributions[2], 10467, 100)

\* C1 (amended): for every input sample with a non-zero supply voltage each
\* requested output slot holds exactly relative humidity = -12.5 +
\* 125*(Vrh/Vsupply), Celsius = -66.875 + 218.75*(Vt/Vsupply), Fahrenheit =
\* -88.375 + 393.75*(Vt/Vsupply); the sample Vrh = Vt = 2.5, Vsupply = 5.1
\* gives about 48.7745, 40.3554 and 104.6397.
C1_LinearFormula ==
    /\ SlotsHoldLinearFormula
    /\ ExampleSample =>
         /\ IsAbout(outputDistributions[0], 487745, 10000)
         /\ IsAbout(outputDistributions[1], 403554, 10000)
         /\ IsAbout(outputDistributions[2], 1046397, 10000)

\* The example sample was calibrated with all outputs requested.
C1_Witness ==
    /\ ExampleSample
    /\ outputDistributions[0] = <<4975, 102>>
    /\ outputDistributions[1] = <<16465, 408>>
    /\ outputDistributions[2] = <<14231, 136>>

(* ---------------- the run as a whole ---------------- *)

\* getCommandLineArguments() is over and parseArgs() had succeeded.
ArgumentsProcessed == pc # "start" /\ pc # "calibrate" /\ pc # "calibrated" /\ isParsed

\* main() returned kCommonConstantReturnTypeError at main.c:136.
RejectedByArguments ==
    /\ pc = "done"
    /\ exitStatus = kCommonConstantReturnTypeError
    /\ exitAt = "main:136"
    /\ Len(stderr) > 0

\* Nothing of the computation has happened.
NothingComputed ==
    /\ i = 0
    /\ returned = <<>>
    /\ slotsWritten = {}
    /\ bufferState = "null"
    /\ bufferLog = <<>>
    /\ stdout = <<>>

\* The process has ended with a non-zero status.
EndedWithError == pc = "done" /\ exitStatus # 0

\* The selector is 'all', given with -S or by default.
SelectorIsAll ==
    \/ ~arguments.isOutputSelected
    \/ arguments.outputSelect = kOutputDistributionIndexMax

\* C2 (claim, contradicted by the code): whenever the output selector given
\* on the command line is greater than the 'all' sentinel, a diagnostic is
\* printed, getCommandLineArguments returns an error and main exits with a
\* non-zero status before any calibration is computed.  (Runs with the help
\* flag, file input or file output in Monte Carlo mode end before the
\* selector is looked at and are left out.)
C2_OutOfRangeSelectorRejected ==
    ( /\ ArgumentsProcessed
      /\ arguments.isOutputSelected
      /\ arguments.outputSelect > kOutputDistributionIndexMax
      /\ ~arguments.isHelpEnabled )
    => RejectedByArguments /\ NothingComputed

\* C3 as stated: whenever the selector is 'all' and benchmarking or Monte
\* Carlo mode is set, main terminates with a non-zero status without
\* allocating the buffer or running an iteration.
C3_AsStated ==
    ( /\ ArgumentsProcessed
      /\ SelectorIsAll
      /\ (arguments.isBenchmarkingMode \/ arguments.isMonteCarloMode) )
    => RejectedByArguments /\ NothingComputed

\* C3 (amended): whenever the selector is 'all' (given explicitly or by
\* default), benchmarking or Monte Carlo mode is set and the help flag is
\* not set, getCommandLineArguments returns an error and main terminates
\* with a non-zero status without allocating the sample buffer or running
\* any iteration.
C3_AllSelectorConflictRejected ==
    ( /\ ArgumentsProcessed
      /\ SelectorIsAll
      /\ (arguments.isBenchmarkingMode \/ arguments.isMonteCarloMode)
      /\ ~arguments.isHelpEnabled )
    => RejectedByArguments /\ NothingComputed

\* The 'all' selector met Monte Carlo mode and nothing else was wrong.
C3_Witness ==
    /\ RejectedByArguments
    /\ stderr = <<"select_single_output">>
    /\ arguments.isOutputSelected
    /\ arguments.outputSelect = kOutputDistributionIndexMax
    /\ arguments.isMonteCarloMode /\ ~arguments.isBenchmarkingMode

\* C4: whenever file output and Monte Carlo mode are both requested (help
\* excepted), getCommandLineArguments returns an error, so no run reaches
\* the computation with isWriteToFileEnabled and isMonteCarloMode both set.
C4_WriteToFileInMonteCarloRejected ==
    /\ ( /\ ArgumentsProcessed
         /\ arguments.isWriteToFileEnabled /\ arguments.isMonteCarloMode
         /\ ~arguments.isHelpEnabled )
       => RejectedByArguments /\ NothingComputed
    /\ (pc \in {"alloc", "loop", "print", "write", "save", "crashed"} \/ i > 0)
       => ~(arguments.isWriteToFileEnabled /\ arguments.isMonteCarloMode)

\* File output met Monte Carlo mode with a single output selected.
C4_Witness ==
    /\ RejectedByArguments
    /\ stderr = <<"write_to_file_in_monte_carlo">>
    /\ arguments.isWriteToFileEnabled /\ arguments.isMonteCarloMode
    /\ arguments.isOutputSelected /\ arguments.outputSelect = 0

\* The report that precedes the CSV writer: the text report or the JSON
\* record, then the timing line when timing is enabled.
ReportPrinted ==
    /\ Len(stdout) > 0
    /\ stdout[1] \in {"text_report", "json_record"}
    /\ \A k \in 1..Len(stdout) : stdout[k] # "benchmark_line"
    /\ arguments.isTimingEnabled => stdout[Len(stdout)] = "timing_line"

\* C5 as stated: in every run that terminates with an error status, no
\* result output has been produced before the error return.
C5_AsStated == EndedWithError => stdout = <<>>

\* C5 (amended): a run that terminates with an error status before the
\* reporting (argument error, failed allocation) has produced no result
\* output; the failure of the CSV writer is the one error return after
\* output: it happens only outside benchmarking mode, after the text
\* report or JSON record and the timing line, if enabled, were printed.
C5_ErrorReturnsAndOutput ==
    /\ (EndedWithError /\ exitAt # "main:258") => stdout = <<>>
    /\ (pc = "done" /\ exitAt = "main:258") =>
          /\ exitStatus = kCommonConstantReturnTypeError
          /\ arguments.isWriteToFileEnabled
          /\ ~arguments.isBenchmarkingMode
          /\ ReportPrinted

\* The CSV writer failed after a text report and the timing line.
C5_Witness ==
    /\ EndedWithError
    /\ exitAt = "main:258"
    /\ stdout = <<"text_report", "timing_line">>

\* C6: whenever the help flag is set, the usage text is printed and the
\* program exits with success before any computation, whatever the other
\* options are.
C6_HelpFirst ==
    (ArgumentsProcessed /\ arguments.isHelpEnabled) =>
        /\ pc = "done"
        /\ exitStatus = 0
        /\ exitAt = "getCommandLineArguments:385"
        /\ stderr = <<"usage">>
        /\ NothingComputed

\* Help was given together with options that would be rejected.
C6_Witness ==
    /\ pc = "done" /\ exitAt = "getCommandLineArguments:385"
    /\ arguments.isHelpEnabled
    /\ arguments.isInputFromFileEnabled
    /\ arguments.isWriteToFileEnabled /\ arguments.isMonteCarloMode
    /\ arguments.isBenchmarkingMode
    /\ arguments.isOutputSelected
    /\ arguments.outputSelect = kOutputDistributionIndexMax

\* C7 as stated: whenever file input is requested, main exits with a
\* non-zero status without computing anything.
C7_AsStated ==
    (ArgumentsProcessed /\ arguments.isInputFromFileEnabled)
    => RejectedByArguments /\ NothingComputed

\* C7 (amended): whenever reading inputs from an external file is requested
\* and the help flag is not set, getCommandLineArguments returns an error
\* and main exits with a non-zero status without computing anything.
C7_InputFromFileRejected ==
    ( /\ ArgumentsProcessed
      /\ arguments.isInputFromFileEnabled
      /\ ~arguments.isHelpEnabled )
    => RejectedByArguments /\ NothingComputed

\* File input was the only thing wrong with the command line.
C7_Witness ==
    /\ RejectedByArguments
    /\ stderr = <<"input_from_file_unsupported">>
    /\ arguments.isInputFromFileEnabled
    /\ ~arguments.isWriteToFileEnabled /\ ~arguments.isMonteCarloMode
    /\ ~arguments.isBenchmarkingMode
    /\ arguments.isOutputSelected /\ arguments.outputSelect = 0

\* getCommandLineArguments() got as far as the selector default.
ReachedSelectorDefault ==
    /\ ArgumentsProcessed
    /\ ~arguments.isHelpEnabled
    /\ ~arguments.isInputFromFileEnabled
    /\ ~(arguments.isWriteToFileEnabled /\ arguments.isMonteCarloMode)

\* C8 as stated: when no output selector is given, getCommandLineArguments
\* (where it gets as far as the selector) sets it to the 'all' sentinel,
\* and a Monte Carlo or benchmarking run without an explicit selector is
\* rejected.
C8_AsStated ==
    /\ (ReachedSelectorDefault /\ ~arguments.isOutputSelected)
       => arguments.outputSelect = kOutputDistributionIndexMax
    /\ ( /\ ArgumentsProcessed
         /\ ~arguments.isOutputSelected
         /\ (arguments.isMonteCarloMode \/ arguments.isBenchmarkingMode) )
       => RejectedByArguments /\ NothingComputed

\* C8 (amended): when no output selector is given and the run is not ended
\* before by the help flag, file input or file output in Monte Carlo mode,
\* getCommandLineArguments sets the selector to the 'all' sentinel whatever
\* value the parser left there; as a consequence a Monte Carlo or
\* benchmarking run without an explicit selector and without the help flag
\* is rejected.
C8_DefaultSelectorIsAll ==
    /\ (ReachedSelectorDefault /\ ~arguments.isOutputSelected)
       => arguments.outputSelect = kOutputDistributionIndexMax
    /\ ( /\ ArgumentsProcessed
         /\ ~arguments.isOutputSelected
         /\ (arguments.isMonteCarloMode \/ arguments.isBenchmarkingMode)
         /\ ~arguments.isHelpEnabled )
       => RejectedByArguments /\ NothingComputed

\* The parser left a single output in the selector of a Monte Carlo run
\* without -S; the default replaced it and the run was rejected.
C8_Witness ==
    /\ RejectedByArguments
    /\ stderr = <<"select_single_output">>
    /\ ~arguments.isOutputSelected
    /\ parsedOutputSelect = 1
    /\ arguments.outputSelect = kOutputDistributionIndexMax
    /\ arguments.isMonteCarloMode

\* The loop of main() is over.
LoopEnded == pc \in {"print", "write", "save", "crashed"} \/ (pc = "done" /\ exitAt \in {"main:258", "main:274"})

\* C9: in Monte Carlo mode with iteration count N the sample buffer has
\* exactly the slots 0..N-1; slot k is written once, by iteration k, with
\* the value calculateSensorOutput returned in that iteration; when the
\* loop ends all N slots are written; no index outside 0..N-1 is written.
C9_BufferFilledInOrder ==
    (arguments.isMonteCarloMode /\ bufferState # "null") =>
        LET N == arguments.numberOfMonteCarloIterations
        IN  /\ DOMAIN monteCarloOutputSamples = 0..(N - 1)
            /\ outOfBoundsWrites = {}
            /\ i <= N
            /\ Len(returned) = i
            /\ \A k \in 0..(N - 1) :
                 IF k < i
                 THEN /\ writeCount[k] = 1
                      /\ monteCarloOutputSamples[k] = returned[k + 1]
                 ELSE /\ writeCount[k] = 0
                      /\ monteCarloOutputSamples[k] = Uninit
            /\ LoopEnded => i = N

\* A Monte Carlo run of two iterations ended its loop with two different
\* samples in the buffer.
C9_Witness ==
    /\ arguments.isMonteCarloMode
    /\ arguments.numberOfMonteCarloIterations = 2
    /\ pc = "print"
    /\ writeCount = [k \in 0..1 |-> 1]
    /\ monteCarloOutputSamples[0] # monteCarloOutputSamples[1]

\* C10: calculateSensorOutput writes exactly the requested slots: with the
\* 'all' selector all three, returning the Fahrenheit value written last;
\* with a single selector s only slot s, leaving the two other slots as
\* they were and returning the value of slot s.
C10_WritesRequestedSlotsOnly ==
    [][ (pc = "calibrate" /\ pc' = "calibrated") =>
          LET s == arguments.outputSelect
          IN  /\ s = kOutputDistributionIndexMax =>
                   /\ slotsWritten' = 0..(kOutputDistributionIndexMax - 1)
                   /\ \A k \in 0..(kOutputDistributionIndexMax - 1) :
                        IsFinite(outputDistributions'[k])
                   /\ calibratedSensorOutput' =
                        outputDistributions'[kOutputDistributionIndexCalibratedTemperatureFahrenheit]
              /\ s \in 0..(kOutputDistributionIndexMax - 1) =>
                   /\ slotsWritten' = {s}
                   /\ IsFinite(outputDistributions'[s])
                   /\ \A k \in 0..(kOutputDistributionIndexMax - 1) :
                        k # s => outputDistributions'[k] = outputDistributions[k]
                   /\ calibratedSensorOutput' = outputDistributions'[s]
      ]_vars

\* A call with the Celsius selector wrote slot 1 and left earlier values in
\* slots 0 and 2.
C10_Witness ==
    /\ pc = "calibrated"
    /\ arguments.outputSelect = kOutputDistributionIndexCalibratedTemperatureCelcius
    /\ slotsWritten = {kOutputDistributionIndexCalibratedTemperatureCelcius}
    /\ outputDistributions[0] = Rat(7, 1)
    /\ outputDistributions[2] = Uninit
    /\ outputDistributions[1] = calibratedSensorOutput
    /\ IsFinite(calibratedSensorOutput)

(* ---------------- the sample buffer ---------------- *)

\* Number of entries e in a log.
Count(log, e) == Cardinality({ k \in 1..Len(log) : log[k] = e })

\* Entry e occurs in the log before position n.
OccursBefore(log, e, n) == \E k \in 1..(n - 1) : log[k] = e

\* main() has returned (the process was not ended by exit() or a crash).
MainReturned == pc = "done" /\ exitAt \in {"main:136", "main:258", "main:274"}

C13_IndicesInRange ==
    arguments.numberOfMonteCarloIterations >= 1 =>
        \A u \in indicesUsed : u[2] \in 0..(kOutputDistributionIndexMax - 1)

\* C14 (claim, contradicted by the code): every outputDistributions slot a
\* reporter reads was written by calculateSensorOutput earlier in the run.
\* (Stated for selectors up to the 'all' sentinel: what a selector above it
\* does is the subject of C2 and C13.)
C14_ReadSlotsWereWritten ==
    arguments.outputSelect <= kOutputDistributionIndexMax =>
        \A r \in slotsRead : r[2] \in slotsWritten

====
